---------------------------- MODULE Spec2Model ----------------------------
(***************************************************************************)
(* Model of the oscillator-strength / absorption-spectrum pipeline of      *)
(* nano-qmflows (src/nac/workflows/workflow_AbsortionSpectrum.py).         *)
(*                                                                         *)
(* Numbers.  The code works on float64.  The model works on exact          *)
(* integers and rationals [n, d] (d > 0, lowest terms): MO energies,       *)
(* MO coefficients and integral values are integers, oscillator strengths  *)
(* and grid energies are rationals.  Kernel values are fixed-point         *)
(* integers (floor of KernelScale times the kernel, with the kernel's      *)
(* transcendental prefactor taken as the unit).  The cross section is kept *)
(* in units of cte * (au_length * 100)^2.                                  *)
(*                                                                         *)
(* Rounding.  Where the rounding of a float decides a discrete outcome the *)
(* model rounds as the code does, to a shorter significand: every          *)
(* operation of the grid-size computation rounds to MantissaBits bits      *)
(* (float64), and a tensor written to the HDF5 store is rounded to         *)
(* StoreBits bits (float32).  Arguments are taken as given.                *)
(***************************************************************************)
EXTENDS Integers, Sequences, FiniteSets, TLC

\* ------------------------------------------------------------------------
\* Bounds of the model
\* ------------------------------------------------------------------------
MaxFrames == 3

MaxStride == 2

KernelScale == 100

\* significant bits of the model's float64 (53 in the program)
MantissaBits == 5

\* significant bits of the model's float32 (24 in the program)
StoreBits == 3

\* ------------------------------------------------------------------------
\* Program constants
\* ------------------------------------------------------------------------
\* h2ev = physical_constants['Hartree energy in eV'][0] = 27.2113..., rounded
h2ev == 27

\* au_energy_to_ev = atomic unit of energy / electron volt, the same number
au_energy_to_ev == 27

\* ------------------------------------------------------------------------
\* Arithmetic on exact rationals (the code's float arithmetic)
\* ------------------------------------------------------------------------
Abs(x) == IF x < 0 THEN -x ELSE x

RECURSIVE GCD(_, _)
GCD(a, b) == IF b = 0 THEN a ELSE GCD(b, a % b)

\* n / d in lowest terms with a positive denominator (d # 0)
Rat(n, d) ==
    LET g == GCD(Abs(n), Abs(d))
        s == IF d < 0 THEN -1 ELSE 1
    IN  [n |-> (s * n) \div g, d |-> (s * d) \div g]

RatInt(k) == [n |-> k, d |-> 1]

\* sums over the least common denominator, products after cross-cancelling,
\* so that intermediate values stay small
RatAdd(a, b) ==
    LET g == GCD(a.d, b.d)
        fa == b.d \div g
        fb == a.d \div g
    IN  Rat(a.n * fa + b.n * fb, a.d * fa)

RatNeg(a) == [n |-> -a.n, d |-> a.d]

RatSub(a, b) == RatAdd(a, RatNeg(b))

RatMul(a, b) ==
    LET g1 == GCD(Abs(a.n), b.d)
        g2 == GCD(Abs(b.n), a.d)
    IN  Rat((a.n \div g1) * (b.n \div g2), (a.d \div g2) * (b.d \div g1))

\* b # 0
RatInv(b) == IF b.n < 0 THEN [n |-> -b.d, d |-> -b.n] ELSE [n |-> b.d, d |-> b.n]

RatDiv(a, b) == RatMul(a, RatInv(b))

RECURSIVE RatSum(_)
RatSum(s) == IF s = <<>> THEN RatInt(0) ELSE RatAdd(Head(s), RatSum(Tail(s)))

RECURSIVE Pow2(_)
Pow2(k) == IF k = 0 THEN 1 ELSE 2 * Pow2(k - 1)

\* a > 0 scaled by a power of two into [2^(bits-1), 2^bits): a = m * 2^e
RECURSIVE FloatScale(_, _, _)
FloatScale(a, e, bits) ==
    IF a.n >= Pow2(bits) * a.d THEN FloatScale(Rat(a.n, 2 * a.d), e + 1, bits)
    ELSE IF a.n < Pow2(bits - 1) * a.d THEN FloatScale(Rat(2 * a.n, a.d), e - 1, bits)
    ELSE [m |-> a, e |-> e]

\* a >= 0 rounded to the nearest integer, ties to even
RoundHalfEven(a) ==
    LET q == a.n \div a.d
        r2 == 2 * (a.n % a.d)
    IN  IF r2 > a.d \/ (r2 = a.d /\ q % 2 = 1) THEN q + 1 ELSE q

\* x rounded to a binary float with a significand of the given width
RoundTo(x, bits) ==
    IF x.n = 0 THEN x
    ELSE LET s == FloatScale([n |-> Abs(x.n), d |-> x.d], 0, bits)
             m == RoundHalfEven(s.m)
             v == IF s.e >= 0 THEN Rat(m * Pow2(s.e), 1) ELSE Rat(m, Pow2(-s.e))
         IN  IF x.n < 0 THEN RatNeg(v) ELSE v

\* the result of a float64 operation
Float64(x) == RoundTo(x, MantissaBits)

\* a value converted to float32
Float32(x) == RoundTo(x, StoreBits)

\* Python int(x): truncation toward zero
PyInt(a) == IF a.n >= 0 THEN a.n \div a.d ELSE -((-a.n) \div a.d)

\* Python a % b for integers; b = 0 raises ZeroDivisionError
PyMod(a, b) ==
    IF b > 0 THEN a % b ELSE -((-a) % (-b))

RECURSIVE IntSum(_)
IntSum(s) == IF s = <<>> THEN 0 ELSE Head(s) + IntSum(Tail(s))

\* np.dot of two vectors
Dot(u, v) == IntSum([k \in 1..Len(u) |-> u[k] * v[k]])

\* np.dot(matrix, vector)
MatVec(m, v) == [r \in 1..Len(m) |-> Dot(m[r], v)]

\* column c (1-based) of a matrix given as a tuple of rows
Column(m, c) == [r \in 1..Len(m) |-> m[r][c]]

Transpose(m) == [c \in 1..Len(m[1]) |-> Column(m, c)]

\* matrix product
MatMul(a, b) == [r \in 1..Len(a) |-> [c \in 1..Len(b[1]) |-> Dot(a[r], Column(b, c))]]

\* Python sequence indexing seq[k] on a 1-based tuple: negative k counts from
\* the end, anything outside [-n, n) raises IndexError
InRange(seq, k) == -Len(seq) <= k /\ k < Len(seq)

PyIndex(seq, k) == IF k >= 0 THEN seq[k + 1] ELSE seq[Len(seq) + k + 1]

\* ------------------------------------------------------------------------
\* External data: the MO provider, the geometries and the integral kernel
\* ------------------------------------------------------------------------
\* the stores: NAC holds the ethylene trajectory with every frame computed
\* and the orbitals in descending order of energy
Projects == {"Cd", "ethylene", "NAC"}

\* whether the provider left the MO data of frame i in the store: the
\* ethylene store lacks those of frame 2
mo_stored(project, i) == ~(project = "ethylene" /\ i = 2)

\* MO energies of frame i (Hartree), orbitals 0..2
mo_energies(project, i) ==
    IF project = "Cd" THEN << -1 - i, i, 2 >>
    ELSE IF project = "NAC" THEN << 2, 1 - i, 0 >>
    ELSE << 0, 1 + i, 1 - i >>

\* MO coefficients of frame i: rows are basis functions, columns orbitals
mo_coefficients(project, i) ==
    IF project = "Cd"
    THEN << << 1, i, -1 >>, << 0, 1, 1 >> >>
    ELSE << << 1, 1, 0 >>, << -1, 1, i >> >>

\* geometry of frame i in atomic units
molecules_au(project, i) ==
    IF project = "Cd"
    THEN << [symbol |-> "C", xyz |-> << i, 0, 1 >>],
            [symbol |-> "H", xyz |-> << 0, i + 1, -1 >>] >>
    ELSE << [symbol |-> "H", xyz |-> << 1, i, 0 >>],
            [symbol |-> "H", xyz |-> << -1, 0, 2 * i >>],
            [symbol |-> "C", xyz |-> << 0, 1, 1 >>] >>

\* mass number of an element
getmass(s) == IF s = "H" THEN 1 ELSE 12

\* the stored Cartesian -> spherical transformation (spherical x Cartesian)
trans_mtx_data == << << 1, 0, 0 >>, << 0, 1, 1 >> >>

\* Center of mass of a molecule: sum(m * xyz) / sum(m), one rational per axis
compute_center_of_mass(atoms) ==
    LET masses == [a \in 1..Len(atoms) |-> getmass(atoms[a].symbol)]
        total_mass == IntSum(masses)
        xs == [u \in 1..3 |->
                 IntSum([a \in 1..Len(atoms) |-> getmass(atoms[a].symbol) * atoms[a].xyz[u]])]
    IN  [u \in 1..3 |-> Rat(xs[u], total_mass)]

\* The integral kernel for dipole component u about the origin rc: the packed
\* upper triangle, dimCart * (dimCart + 1) / 2 values, row by row
calcMtxMultipoleP(atoms, rc, u, dimCart) ==
    LET along == IntSum([a \in 1..Len(atoms) |-> atoms[a].xyz[u]])
    IN  [k \in 1..((dimCart * (dimCart + 1)) \div 2) |->
            ((k * along + rc[u].n + k * k + u) % 5) - 2]

\* position in the packed upper triangle of entry (r, c), r <= c, 1-based
TriangIndex(r, c, dim) == ((r - 1) * dim - ((r - 1) * (r - 2)) \div 2) + (c - r + 1)

\* expand a packed triangle into the full symmetric dim x dim matrix
triang2mtx(xs, dim) ==
    [r \in 1..dim |-> [c \in 1..dim |->
        IF r <= c THEN xs[TriangIndex(r, c, dim)] ELSE xs[TriangIndex(c, r, dim)]]]

\* T . M . T^t
transform2Spherical(trans_mtx, matrix) ==
    MatMul(trans_mtx, MatMul(matrix, Transpose(trans_mtx)))

\* the three dipole matrices <psi_i | x, y, z | psi_j> in the spherical basis
calcDipoleCGFS(atoms, rc, trans_mtx) ==
    LET dimCart == Len(trans_mtx[1])
        mtx_integrals_triang == [u \in 1..3 |-> calcMtxMultipoleP(atoms, rc, u, dimCart)]
        mtx_integrals_cart == [u \in 1..3 |-> triang2mtx(mtx_integrals_triang[u], dimCart)]
    IN  [u \in 1..3 |-> transform2Spherical(trans_mtx, mtx_integrals_cart[u])]

\* ------------------------------------------------------------------------
\* Oscillator strength of one transition and of one initial state
\* ------------------------------------------------------------------------
\* variant: the components are summed without being squared
oscillator_strength_NoSquare(css_i, css_j, energy, mtx_integrals_spher) ==
    LET components == [u \in 1..Len(mtx_integrals_spher) |->
                          Dot(css_i, MatVec(mtx_integrals_spher[u], css_j))]
        sum_integrals == IntSum(components)
        fij == RatMul(Rat(2, 3), RatInt(energy * sum_integrals))
    IN  [fij |-> fij, components |-> components]

\* variant: the initial-state coefficients are used on both sides
oscillator_strength_SameState(css_i, css_j, energy, mtx_integrals_spher) ==
    LET components == [u \in 1..Len(mtx_integrals_spher) |->
                          Dot(css_i, MatVec(mtx_integrals_spher[u], css_i))]
        sum_integrals == IntSum([u \in 1..Len(components) |-> components[u] * components[u]])
        fij == RatMul(Rat(2, 3), RatInt(energy * sum_integrals))
    IN  [fij |-> fij, components |-> components]

\* variant: the energy factor is left out of fij
oscillator_strength_NoEnergy(css_i, css_j, energy, mtx_integrals_spher) ==
    LET components == [u \in 1..Len(mtx_integrals_spher) |->
                          Dot(css_i, MatVec(mtx_integrals_spher[u], css_j))]
        sum_integrals == IntSum([u \in 1..Len(components) |-> components[u] * components[u]])
        fij == RatMul(Rat(2, 3), RatInt(sum_integrals))
    IN  [fij |-> fij, components |-> components]

\* fij = (2 / 3) * energy * sum_u <i | r_u | j>^2 and the three components
oscillator_strength(css_i, css_j, energy, mtx_integrals_spher) ==
    LET components == [u \in 1..Len(mtx_integrals_spher) |->
                          Dot(css_i, MatVec(mtx_integrals_spher[u], css_j))]
        sum_integrals == IntSum([u \in 1..Len(components) |-> components[u] * components[u]])
        fij == RatMul(Rat(2, 3), RatInt(energy * sum_integrals))
    IN  [fij |-> fij, components |-> components]

\* variant: the two state labels are stored the wrong way round
Oscillator_Swapped(initialS, finalS, deltaE, fij, components) ==
    [initialS |-> finalS, finalS |-> initialS, deltaE |-> deltaE,
     fij |-> fij, components |-> components]

\* the Oscillator named tuple
Oscillator(initialS, finalS, deltaE, fij, components) ==
    [initialS |-> initialS, finalS |-> finalS, deltaE |-> deltaE,
     fij |-> fij, components |-> components]

\* one record per final state of fs, in order; an index outside the orbital
\* range raises IndexError
compute_oscillator_strength(es, coeffs, mtx_integrals_spher, initialS, fs) ==
    IF ~InRange(es, initialS) \/ \E k \in 1..Len(fs) : ~InRange(es, fs[k])
    THEN [ok |-> FALSE, err |-> "IndexError", val |-> <<>>]
    ELSE
      LET css_i == PyIndex(Transpose(coeffs), initialS)
          energy_i == PyIndex(es, initialS)
          xs == [k \in 1..Len(fs) |->
                   LET finalS == fs[k]
                       css_j == PyIndex(Transpose(coeffs), finalS)
                       energy_j == PyIndex(es, finalS)
                       deltaE == energy_j - energy_i
                       r == oscillator_strength(css_i, css_j, deltaE, mtx_integrals_spher)
                   IN  Oscillator(initialS, finalS, deltaE, r.fij, r.components)]
      IN  [ok |-> TRUE, err |-> "", val |-> xs]

\* Python zip of two lists: pairs up to the shorter length
Min(a, b) == IF a < b THEN a ELSE b

Zip(xs, ys) == [k \in 1..Min(Len(xs), Len(ys)) |-> <<xs[k], ys[k]>>]

\* variant: every frame reads the MO data of the first frame
calcOscillatorStrenghts_FirstFrameMO(i, project, atoms, hdf5_trans_mtx_, initial_states_, final_states_) ==
    LET es == mo_energies(project, 0)
        coeffs == mo_coefficients(project, 0)
        rc == compute_center_of_mass(atoms)
    IN  IF ~mo_stored(project, i)
        THEN [ok |-> FALSE, err |-> "KeyError", val |-> <<>>, rc |-> <<>>, steps |-> <<>>]
        ELSE IF hdf5_trans_mtx_ = "None"
        THEN [ok |-> FALSE, err |-> "UnboundLocalError", val |-> <<>>, rc |-> rc,
              steps |-> << "mo", "rc" >>]
        ELSE
          LET trans_mtx == trans_mtx_data
              mtx_integrals_spher == calcDipoleCGFS(atoms, rc, trans_mtx)
              pairs == Zip(initial_states_, final_states_)
              groups == [g \in 1..Len(pairs) |->
                           compute_oscillator_strength(
                               es, coeffs, mtx_integrals_spher, pairs[g][1], pairs[g][2])]
              before == << "mo", "trans", "rc", "dipole" >>
          IN  IF \E g \in 1..Len(groups) : ~groups[g].ok
              THEN [ok |-> FALSE, err |-> "IndexError", val |-> <<>>, rc |-> rc,
                    steps |-> before]
              ELSE [ok |-> TRUE, err |-> "", val |-> [g \in 1..Len(groups) |-> groups[g].val],
                    rc |-> rc, steps |-> Append(before, "records")]

\* variant: the origin is computed once, for the first frame, and reused
calcOscillatorStrenghts_SharedOrigin(i, project, atoms, hdf5_trans_mtx_, initial_states_, final_states_) ==
    LET es == mo_energies(project, i)
        coeffs == mo_coefficients(project, i)
        rc == compute_center_of_mass(molecules_au(project, 0))
    IN  IF ~mo_stored(project, i)
        THEN [ok |-> FALSE, err |-> "KeyError", val |-> <<>>, rc |-> <<>>, steps |-> <<>>]
        ELSE IF hdf5_trans_mtx_ = "None"
        THEN [ok |-> FALSE, err |-> "UnboundLocalError", val |-> <<>>, rc |-> rc,
              steps |-> << "mo", "rc" >>]
        ELSE
          LET trans_mtx == trans_mtx_data
              mtx_integrals_spher == calcDipoleCGFS(atoms, rc, trans_mtx)
              pairs == Zip(initial_states_, final_states_)
              groups == [g \in 1..Len(pairs) |->
                           compute_oscillator_strength(
                               es, coeffs, mtx_integrals_spher, pairs[g][1], pairs[g][2])]
              before == << "mo", "trans", "rc", "dipole" >>
          IN  IF \E g \in 1..Len(groups) : ~groups[g].ok
              THEN [ok |-> FALSE, err |-> "IndexError", val |-> <<>>, rc |-> rc,
                    steps |-> before]
              ELSE [ok |-> TRUE, err |-> "", val |-> [g \in 1..Len(groups) |-> groups[g].val],
                    rc |-> rc, steps |-> Append(before, "records")]

\* variant: without a transformation path the Cartesian integrals are used as
\* they are (an identity transformation)
calcOscillatorStrenghts_CartesianBasis(i, project, atoms, hdf5_trans_mtx_, initial_states_, final_states_) ==
    LET es == mo_energies(project, i)
        coeffs == mo_coefficients(project, i)
        rc == compute_center_of_mass(atoms)
    IN  IF ~mo_stored(project, i)
        THEN [ok |-> FALSE, err |-> "KeyError", val |-> <<>>, rc |-> <<>>, steps |-> <<>>]
        ELSE
          LET trans_mtx == IF hdf5_trans_mtx_ = "None" THEN << << 1, 0 >>, << 0, 1 >> >>
                           ELSE trans_mtx_data
              mtx_integrals_spher == calcDipoleCGFS(atoms, rc, trans_mtx)
              pairs == Zip(initial_states_, final_states_)
              groups == [g \in 1..Len(pairs) |->
                           compute_oscillator_strength(
                               es, coeffs, mtx_integrals_spher, pairs[g][1], pairs[g][2])]
              before == IF hdf5_trans_mtx_ = "None" THEN << "mo", "rc", "dipole" >>
                        ELSE << "mo", "trans", "rc", "dipole" >>
          IN  IF \E g \in 1..Len(groups) : ~groups[g].ok
              THEN [ok |-> FALSE, err |-> "IndexError", val |-> <<>>, rc |-> rc,
                    steps |-> before]
              ELSE [ok |-> TRUE, err |-> "", val |-> [g \in 1..Len(groups) |-> groups[g].val],
                    rc |-> rc, steps |-> Append(before, "records")]

\* The oscillators of frame i: one list per (initial state, final states)
\* pair, with the origin handed to calcDipoleCGFS and the steps that ran
\* before the call returned or raised: "mo" (line 249), "trans" (254), "rc"
\* (260), "dipole" (263), "records" (265-268)
calcOscillatorStrenghts(i, project, atoms, hdf5_trans_mtx_, initial_states_, final_states_) ==
    LET es == mo_energies(project, i)
        coeffs == mo_coefficients(project, i)
        rc == compute_center_of_mass(atoms)
    IN  IF ~mo_stored(project, i)
        THEN [ok |-> FALSE, err |-> "KeyError", val |-> <<>>, rc |-> <<>>, steps |-> <<>>]
        ELSE IF hdf5_trans_mtx_ = "None"
        THEN [ok |-> FALSE, err |-> "UnboundLocalError", val |-> <<>>, rc |-> rc,
              steps |-> << "mo", "rc" >>]
        ELSE
          LET trans_mtx == trans_mtx_data
              mtx_integrals_spher == calcDipoleCGFS(atoms, rc, trans_mtx)
              pairs == Zip(initial_states_, final_states_)
              groups == [g \in 1..Len(pairs) |->
                           compute_oscillator_strength(
                               es, coeffs, mtx_integrals_spher, pairs[g][1], pairs[g][2])]
              before == << "mo", "trans", "rc", "dipole" >>
          IN  IF \E g \in 1..Len(groups) : ~groups[g].ok
              THEN [ok |-> FALSE, err |-> "IndexError", val |-> <<>>, rc |-> rc,
                    steps |-> before]
              ELSE [ok |-> TRUE, err |-> "", val |-> [g \in 1..Len(groups) |-> groups[g].val],
                    rc |-> rc, steps |-> Append(before, "records")]

\* ------------------------------------------------------------------------
\* Spectral synthesis
\* ------------------------------------------------------------------------
\* floor of a positive rational
Floor(a) == a.n \div a.d

\* sqrt(2 / pi) / delta * exp(-2 ((x - center) / delta)^2), in units of
\* sqrt(2 / pi) / KernelScale, with exp(-y) taken as 1 / (1 + y): positive,
\* even in x - center and decreasing with |x - center|, and within 32-bit
\* integers on every grid of the model
gaussian_distribution(x, center, delta) ==
    LET u == RatDiv(RatSub(x, RatInt(center)), delta)
        y == RatMul(RatInt(2), RatMul(u, u))
        iexpo == RatAdd(RatInt(1), y)
    IN  Floor(RatDiv(RatInt(KernelScale), RatMul(delta, iexpo)))

\* delta / (2 pi) / ((x - center)^2 + (delta / 2)^2), in units of
\* 1 / (2 pi KernelScale)
lorentzian_distribution(x, center, delta) ==
    LET d == RatSub(x, RatInt(center))
        half == RatMul(delta, Rat(1, 2))
        denominator == RatAdd(RatMul(d, d), RatMul(half, half))
    IN  Floor(RatDiv(RatMul(RatInt(KernelScale), delta), denominator))

convolution_functions == {"gaussian", "lorentzian"}

fun_convolution(convolution_, x, center, delta) ==
    IF convolution_ = "gaussian" THEN gaussian_distribution(x, center, delta)
    ELSE lorentzian_distribution(x, center, delta)

\* Python zip(*xss): the k-th element collects the k-th item of every list
RECURSIVE MinLen(_)
MinLen(xss) ==
    IF Len(xss) = 1 THEN Len(xss[1]) ELSE Min(Len(Head(xss)), MinLen(Tail(xss)))

ZipStar(xss) ==
    IF xss = <<>> THEN <<>>
    ELSE [k \in 1..MinLen(xss) |-> [f \in 1..Len(xss) |-> xss[f][k]]]

RECURSIVE Concat(_)
Concat(xss) == IF xss = <<>> THEN <<>> ELSE Head(xss) \o Concat(Tail(xss))

\* variant: the tuples are the record lists of each frame, not transposed
FrameTuples_PerFrame(oscillators_) == Concat(oscillators_)

\* the tuples ws whose length is the divisor: for arr in zip(*oscillators),
\* for ws in zip(*arr), in the order of evaluation
FrameTuples(oscillators_) ==
    LET arrs == ZipStar(oscillators_)
    IN  Concat([a \in 1..Len(arrs) |-> ZipStar(arrs[a])])

\* variant: the collection is walked as nested (frame, group, final state)
\* without the two transpositions, so the mean runs over the final states
compute_cross_section_NoTranspose(oscillators_, convolution_, energy, broadening_) ==
    LET inner(ws) ==
            IF ws = <<>> THEN RatInt(0)
            ELSE RatDiv(
                RatSum([o \in 1..Len(ws) |->
                    RatMul(ws[o].fij,
                           RatInt(fun_convolution(convolution_, energy, ws[o].deltaE, broadening_)))]),
                RatInt(Len(ws)))
        middle(arr) == RatSum([w \in 1..Len(arr) |-> inner(arr[w])])
    IN  RatSum([a \in 1..Len(oscillators_) |-> middle(oscillators_[a])])

\* variant: the division by len(ws) is left out
compute_cross_section_NoMean(oscillators_, convolution_, energy, broadening_) ==
    LET arrs == ZipStar(oscillators_)
        inner(ws) ==
            RatSum([o \in 1..Len(ws) |->
                RatMul(ws[o].fij,
                       RatInt(fun_convolution(convolution_, energy, ws[o].deltaE, broadening_)))])
        middle(arr) == LET wss == ZipStar(arr)
                       IN  RatSum([w \in 1..Len(wss) |-> inner(wss[w])])
    IN  RatSum([a \in 1..Len(arrs) |-> middle(arrs[a])])

\* variant: transitions with a gap that is not positive are left out of the sum
compute_cross_section_PositiveGaps(oscillators_, convolution_, energy, broadening_) ==
    LET arrs == ZipStar(oscillators_)
        inner(ws) == RatDiv(
            RatSum([o \in 1..Len(ws) |->
                IF ws[o].deltaE <= 0 THEN RatInt(0)
                ELSE RatMul(ws[o].fij,
                            RatInt(fun_convolution(convolution_, energy, ws[o].deltaE, broadening_)))]),
            RatInt(Len(ws)))
        middle(arr) == LET wss == ZipStar(arr)
                       IN  RatSum([w \in 1..Len(wss) |-> inner(wss[w])])
    IN  RatSum([a \in 1..Len(arrs) |-> middle(arrs[a])])

\* one value of the cross section, in units of cte * (au_length * 100)^2
compute_cross_section(oscillators_, convolution_, energy, broadening_) ==
    LET arrs == ZipStar(oscillators_)
        inner(ws) == RatDiv(
            RatSum([o \in 1..Len(ws) |->
                RatMul(ws[o].fij,
                       RatInt(fun_convolution(convolution_, energy, ws[o].deltaE, broadening_)))]),
            RatInt(Len(ws)))
        middle(arr) == LET wss == ZipStar(arr)
                       IN  RatSum([w \in 1..Len(wss) |-> inner(wss[w])])
    IN  RatSum([a \in 1..Len(arrs) |-> middle(arrs[a])])

\* the cross section on the whole grid; an unknown kernel name raises
\* KeyError, and np.vectorize without otypes raises ValueError on an empty grid
compute_cross_section_grid(oscillators_, convolution_, energies_, broadening_) ==
    IF convolution_ \notin convolution_functions
    THEN [ok |-> FALSE, err |-> "KeyError", val |-> <<>>]
    ELSE IF energies_ = <<>>
    THEN [ok |-> FALSE, err |-> "ValueError", val |-> <<>>]
    ELSE [ok |-> TRUE, err |-> "",
          val |-> [k \in 1..Len(energies_) |->
                     compute_cross_section(oscillators_, convolution_, energies_[k], broadening_)]]

\* variant: the step is (stop - start) / num, so the last point is not stop
linspace_NoEndpoint(start, stop, num) ==
    IF num = 1 THEN << start >>
    ELSE [k \in 1..num |->
            RatAdd(start, RatMul(RatInt(k - 1), RatDiv(RatSub(stop, start), RatInt(num))))]

\* np.linspace(start, stop, num) for num >= 0
linspace(start, stop, num) ==
    IF num = 1 THEN << start >>
    ELSE [k \in 1..num |->
            RatAdd(start, RatMul(RatInt(k - 1), RatDiv(RatSub(stop, start), RatInt(num - 1))))]

\* variant: one point more than the ratio, as if both ends were counted
create_promised_cross_section_Fencepost(broadening_, energy_range_) ==
    LET broad_au == Float64(RatDiv(broadening_, RatInt(h2ev)))
        initial_energy == Float64(RatDiv(energy_range_[1], RatInt(h2ev)))
        final_energy == Float64(RatDiv(energy_range_[2], RatInt(h2ev)))
        npoints == PyInt(Float64(RatDiv(Float64(RatSub(final_energy, initial_energy)),
                                        broad_au))) + 1
    IN  IF npoints < 0
        THEN [ok |-> FALSE, err |-> "ValueError", npoints |-> npoints, val |-> <<>>]
        ELSE [ok |-> TRUE, err |-> "", npoints |-> npoints,
              val |-> linspace(initial_energy, final_energy, npoints)]

\* the energy grid in Hartree; a negative point count raises ValueError
create_promised_cross_section(broadening_, energy_range_) ==
    LET broad_au == Float64(RatDiv(broadening_, RatInt(h2ev)))
        initial_energy == Float64(RatDiv(energy_range_[1], RatInt(h2ev)))
        final_energy == Float64(RatDiv(energy_range_[2], RatInt(h2ev)))
        npoints == PyInt(Float64(RatDiv(Float64(RatSub(final_energy, initial_energy)),
                                        broad_au)))
    IN  IF npoints < 0
        THEN [ok |-> FALSE, err |-> "ValueError", npoints |-> npoints, val |-> <<>>]
        ELSE [ok |-> TRUE, err |-> "", npoints |-> npoints,
              val |-> linspace(initial_energy, final_energy, npoints)]

\* the frames the sweep schedules: i in enumerate(molecules_au) with
\* i % calculate_oscillator_every == 0, in enumeration order
RECURSIVE SampledFrom(_, _, _)
SampledFrom(i, n, every) ==
    IF i >= n THEN <<>>
    ELSE IF PyMod(i, every) = 0 THEN << i >> \o SampledFrom(i + 1, n, every)
    ELSE SampledFrom(i + 1, n, every)

\* variant: the enumeration starts at 1
SampledFrames_FromOne(n, every) == SampledFrom(1, n, every)

SampledFrames(n, every) == SampledFrom(0, n, every)

\* ------------------------------------------------------------------------
\* The integral cache (nanoqm/integrals/multipole_matrices.py)
\* ------------------------------------------------------------------------
\* An array is [shape, data]: data holds the values in row-major order.
\* Python's None where an array is expected
None == [shape |-> << >>, data |-> << >>]

\* number of stacked planes per multipole kind
Planes(multipole) ==
    IF multipole = "overlap" THEN 1 ELSE IF multipole = "dipole" THEN 4 ELSE 10

\* one basis function per atom
BasisDim(mol) == Len(mol)

\* The integral kernel: the float64 super matrix of shape (planes * dim, dim)
\* for the geometry in the scratch file, plane by plane; the values are
\* eighths, which a float64 holds exactly
compute_integrals_multipole(mol, multipole) ==
    LET dim == BasisDim(mol)
        along == IntSum([a \in 1..Len(mol) |-> IntSum(mol[a].xyz)])
        rows == Planes(multipole) * dim
    IN  [shape |-> << rows, dim >>,
         data |-> [k \in 1..(rows * dim) |->
                     LET R == (k - 1) \div dim
                         c == ((k - 1) % dim) + 1
                         plane == R \div dim
                         r == (R % dim) + 1
                     IN  Rat(along + plane + r * c, 8)]]

\* ndarray.reshape: the same data under another shape
reshape(array, shape) == [shape |-> shape, data |-> array.data]

\* variant: the point index is left out of the path
PathMultipole_NoPoint(project, i, enumerate_from_, multipole) ==
    << project, "multipole", 0, multipole >>

\* root/multipole: project_name/multipole/point_{i + enumerate_from}/kind
PathMultipole(project, i, enumerate_from_, multipole) ==
    << project, "multipole", i + enumerate_from_, multipole >>

\* is_data_in_hdf5 for an existing file: the node is in the file
is_data_in_hdf5(f5, path) == path \in DOMAIN f5

\* retrieve_hdf5_data: the stored array
retrieve_hdf5_data(f5, path) == f5[path]

\* variant: the store is never consulted
search_multipole_in_hdf5_AlwaysMiss(f5, path) == None

\* the stored array, or None
search_multipole_in_hdf5(f5, path) ==
    IF is_data_in_hdf5(f5, path) THEN retrieve_hdf5_data(f5, path) ELSE None

\* store_arrays_in_hdf5: require_dataset creates the dataset with the data
\* converted to float32, or returns the dataset that is already there
store_arrays_in_hdf5(f5, path, tensor) ==
    IF path \in DOMAIN f5 THEN f5
    ELSE f5 @@ (path :> [shape |-> tensor.shape,
                         data |-> [k \in 1..Len(tensor.data) |-> Float32(tensor.data[k])]])

\* compute_matrix_multipole with the scratch directory holding scratch_ and
\* the fresh file name path_; kernel_ok tells whether the kernel returns.
\* The result carries the scratch directory after the call and whether the
\* kernel was called.
compute_matrix_multipole(mol, multipole, scratch_, path_, kernel_ok) ==
    LET written == scratch_ \cup { path_ }
        dim == BasisDim(mol)
    IN  IF multipole \in {"overlap", "dipole", "quadrupole"}
        THEN IF ~kernel_ok
             THEN [ok |-> FALSE, err |-> "RuntimeError", val |-> None,
                   scratch |-> written, kernel |-> TRUE]
             ELSE LET super_matrix == compute_integrals_multipole(mol, multipole)
                      matrix_multipole ==
                          IF multipole = "overlap" THEN super_matrix
                          ELSE reshape(super_matrix, << Planes(multipole), dim, dim >>)
                  IN  [ok |-> TRUE, err |-> "", val |-> matrix_multipole,
                       scratch |-> written \ { path_ }, kernel |-> TRUE]
        ELSE [ok |-> FALSE, err |-> "UnboundLocalError", val |-> None,
              scratch |-> written \ { path_ }, kernel |-> FALSE]

\* ------------------------------------------------------------------------
\* State of one run of workflow_oscillator_strength
\* ------------------------------------------------------------------------
VARIABLES
    pc,                          \* position of the run
    project_name,                \* selects the stored MO data and geometries
    n_geometries,                \* len(geometries)
    calculate_oscillator_every,  \* the stride
    initial_states,
    final_states,
    hdf5_trans_mtx,              \* "trans" (a stored matrix) or "None"
    convolution,
    broadening,                  \* eV
    energy_range,                \* eV
    scheduled,                   \* frame index of each gathered task, in order
    oscillators,                 \* the gathered results, one slot per task
    calls,                       \* per frame, how often its computation was started
    energies,                    \* the grid (Hartree until written, then eV)
    cross_section,
    files,                       \* the three output files
    error,                       \* the exception that ended the run, or ""
    pure_in,                     \* inputs of the pure-function checks
    pure_out,                    \* their outputs
    enumerate_from,              \* config.enumerate_from
    hdf5,                        \* the multipole datasets of the HDF5 store, by path
    scratch,                     \* the files in config.scratch_path
    kernel_calls,                \* per path, calls of the integral kernel
    dataset_writes,              \* per path, datasets created in the store
    history,                     \* per path, the outcome of every call, in order
    tasks                        \* the concurrent get_multipole_matrix calls

vars == << pc, project_name, n_geometries, calculate_oscillator_every,
           initial_states, final_states, hdf5_trans_mtx, convolution,
           broadening, energy_range, scheduled, oscillators, calls, energies,
           cross_section, files, error, pure_in, pure_out, enumerate_from,
           hdf5, scratch, kernel_calls, dataset_writes, history, tasks >>

config_vars == << project_name, n_geometries, calculate_oscillator_every,
                  initial_states, final_states, hdf5_trans_mtx, convolution,
                  broadening, energy_range >>

pure_vars == << pure_in, pure_out >>

cache_vars == << enumerate_from, hdf5, scratch, kernel_calls, dataset_writes,
                 history, tasks >>

\* the cache is not used
NoCache ==
    /\ enumerate_from = 0
    /\ hdf5 = << >>
    /\ scratch = {}
    /\ kernel_calls = << >>
    /\ dataset_writes = << >>
    /\ history = << >>
    /\ tasks = << >>

\* the (initial_states, final_states) arguments the model tries
StateConfigs ==
    { << << 0 >>, << << 1, 2 >> >> >>,
      << << 0, 1 >>, << << 1, 2 >>, << 0 >> >> >>,
      << << 0, 2 >>, << << 1 >>, << 0, 1, 2 >> >> >>,
      << << 0, 1, 2 >>, << << 1 >> >> >>,
      << << 0 >>, << << 1 >>, << 2 >> >> >>,
      << << 1 >>, << << >> >> >>,
      << << >>, << >> >>,
      << << 0 >>, << << 3 >> >> >>,
      << << -1 >>, << << 0 >> >> >> }

Strides == (-1)..MaxStride

Convolutions == {"gaussian", "lorentzian", "gausian"}

\* (energy_range, broadening) in eV
SpectrumSettings ==
    { << << RatInt(0), RatInt(54) >>, RatInt(27) >>,
      << << RatInt(0), RatInt(81) >>, RatInt(27) >>,
      << << RatInt(0), RatInt(54) >>, RatInt(54) >>,
      << << RatInt(27), RatInt(27) >>, RatInt(27) >>,
      << << RatInt(54), RatInt(27) >>, RatInt(27) >>,
      << << RatInt(0), RatInt(150) >>, RatInt(50) >>,
      << << RatInt(0), RatInt(1) >>, Rat(1, 2) >> }

NoFile == [exists |-> FALSE, rows |-> <<>>]

NoFiles == [cross_section_cm |-> NoFile, molar_extinction_coefficients |-> NoFile,
            oscillators |-> NoFile]

Pending == [done |-> FALSE, frame |-> -1, val |-> <<>>, rc |-> <<>>, steps |-> <<>>]

Init ==
    /\ pc = "start"
    /\ project_name \in Projects
    /\ n_geometries \in 0..MaxFrames
    /\ calculate_oscillator_every \in Strides
    /\ \E c \in StateConfigs : initial_states = c[1] /\ final_states = c[2]
    /\ hdf5_trans_mtx \in {"trans", "None"}
    /\ convolution \in Convolutions
    /\ \E s \in SpectrumSettings : energy_range = s[1] /\ broadening = s[2]
    /\ scheduled = <<>>
    /\ oscillators = <<>>
    /\ calls = [i \in 0..(n_geometries - 1) |-> 0]
    /\ energies = <<>>
    /\ cross_section = <<>>
    /\ files = NoFiles
    /\ error = ""
    /\ pure_in = <<>>
    /\ pure_out = <<>>
    /\ NoCache

\* variant: the exception is swallowed and the run goes on to its output
Fail_Swallowed(e) ==
    /\ pc' = "synthesized"
    /\ error' = e

Fail(e) ==
    /\ pc' = "failed"
    /\ error' = e

\* workflow_oscillator_strength up to run(): build the gather of per-frame
\* tasks and the promised cross section (the grid is computed eagerly)
ScheduleSweep ==
    /\ pc = "start"
    /\ IF n_geometries > 0 /\ calculate_oscillator_every = 0
       THEN /\ Fail("ZeroDivisionError")
            /\ UNCHANGED << scheduled, oscillators, energies >>
       ELSE LET frames == SampledFrames(n_geometries, calculate_oscillator_every)
                grid == create_promised_cross_section(broadening, energy_range)
            IN  /\ scheduled' = frames
                /\ oscillators' = [k \in 1..Len(frames) |-> Pending]
                /\ IF grid.ok
                   THEN /\ energies' = grid.val
                        /\ pc' = "running"
                        /\ error' = ""
                   ELSE /\ Fail(grid.err)
                        /\ UNCHANGED energies
    /\ UNCHANGED << config_vars, calls, cross_section, files, pure_vars, cache_vars >>

\* variant: the results are collected in the order in which the tasks
\* complete, not in the order of the gather
RunFrame_CompletionOrder(k) ==
    /\ pc = "running"
    /\ k \in 1..Len(scheduled)
    /\ calls[scheduled[k]] = 0
    /\ LET i == scheduled[k]
           mol == molecules_au(project_name, i)
           r == calcOscillatorStrenghts(
                    i, project_name, mol, hdf5_trans_mtx, initial_states, final_states)
           slot == 1 + Cardinality({j \in 1..Len(oscillators) : oscillators[j].done})
       IN  /\ calls' = [calls EXCEPT ![i] = @ + 1]
           /\ IF r.ok
              THEN /\ oscillators' = [oscillators EXCEPT
                                        ![slot] = [done |-> TRUE, frame |-> i, val |-> r.val,
                                                   rc |-> r.rc, steps |-> r.steps]]
                   /\ UNCHANGED << pc, error >>
              ELSE /\ Fail(r.err)
                   /\ oscillators' = [oscillators EXCEPT
                                        ![slot] = [done |-> FALSE, frame |-> i, val |-> <<>>,
                                                   rc |-> r.rc, steps |-> r.steps]]
    /\ UNCHANGED << config_vars, scheduled, energies, cross_section, files, pure_vars, cache_vars >>

\* run(): one scheduled calcOscillatorStrenghts task executes; the tasks are
\* independent and run in any order
RunFrame(k) ==
    /\ pc = "running"
    /\ k \in 1..Len(scheduled)
    /\ ~oscillators[k].done
    /\ LET i == scheduled[k]
           mol == molecules_au(project_name, i)
           r == calcOscillatorStrenghts(
                    i, project_name, mol, hdf5_trans_mtx, initial_states, final_states)
       IN  /\ calls' = [calls EXCEPT ![i] = @ + 1]
           /\ IF r.ok
              THEN /\ oscillators' = [oscillators EXCEPT
                                        ![k] = [done |-> TRUE, frame |-> i, val |-> r.val,
                                                rc |-> r.rc, steps |-> r.steps]]
                   /\ UNCHANGED << pc, error >>
              ELSE /\ Fail(r.err)
                   /\ oscillators' = [oscillators EXCEPT
                                        ![k] = [done |-> FALSE, frame |-> i, val |-> <<>>,
                                                rc |-> r.rc, steps |-> r.steps]]
    /\ UNCHANGED << config_vars, scheduled, energies, cross_section, files, pure_vars, cache_vars >>

\* variant: the synthesis streams, it starts as soon as one result is there
AllGathered_Streaming ==
    oscillators = <<>> \/ \E k \in 1..Len(oscillators) : oscillators[k].done

\* every promise of the gather is resolved
AllGathered == \A k \in 1..Len(oscillators) : oscillators[k].done

GatheredValues == [k \in 1..Len(oscillators) |-> oscillators[k].val]

\* run(): compute_cross_section_grid executes once its argument, the gathered
\* oscillators, is complete
Synthesize ==
    /\ pc = "running"
    /\ AllGathered
    /\ LET r == compute_cross_section_grid(GatheredValues, convolution, energies, broadening)
       IN  IF r.ok
           THEN /\ cross_section' = r.val
                /\ pc' = "synthesized"
                /\ error' = ""
           ELSE /\ Fail(r.err)
                /\ UNCHANGED cross_section
    /\ UNCHANGED << config_vars, scheduled, oscillators, calls, energies, files, pure_vars, cache_vars >>

\* the row write_oscillator appends; energy = deltaE * h2ev
write_oscillator(osc) ==
    [transition |-> << osc.initialS, osc.finalS >>, energy |-> osc.deltaE * h2ev,
     fij |-> osc.fij, components |-> osc.components]

\* oscillators.txt after write_information(data): every block reopens the
\* file with mode 'w', writes the header and appends its rows
RECURSIVE write_information_from(_, _)
write_information_from(file, blocks) ==
    IF blocks = <<>> THEN file
    ELSE write_information_from(
             [exists |-> TRUE,
              rows |-> << "header" >> \o
                       [k \in 1..Len(Head(blocks)) |-> write_oscillator(Head(blocks)[k])]],
             Tail(blocks))

write_information(data) == write_information_from(NoFile, Concat(data))

\* the rest of workflow_oscillator_strength after run(): energies to eV, the
\* two spectra and the transition table
WriteResults ==
    /\ pc = "synthesized"
    \* the extinction coefficients are kept in units of ln(10) * 1e3 / nA
    /\ LET ev == [k \in 1..Len(energies) |-> RatMul(energies[k], RatInt(au_energy_to_ev))]
       IN  /\ energies' = ev
           /\ files' = [cross_section_cm |->
                            [exists |-> TRUE,
                             rows |-> << "header" >> \o
                                 [k \in 1..Len(ev) |-> << ev[k], cross_section[k] >>]],
                        molar_extinction_coefficients |->
                            [exists |-> TRUE,
                             rows |-> << "header" >> \o
                                 [k \in 1..Len(ev) |-> << ev[k], cross_section[k] >>]],
                        oscillators |-> write_information(GatheredValues)]
    /\ pc' = "done"
    /\ UNCHANGED << config_vars, scheduled, oscillators, calls, cross_section, error,
                    pure_vars, cache_vars >>

Next ==
    \/ ScheduleSweep
    \/ \E k \in 1..MaxFrames : RunFrame(k)
    \/ Synthesize
    \/ WriteResults

Spec == Init /\ [][Next]_vars

\* ------------------------------------------------------------------------
\* The oscillator strength as a pure function: bounded inputs, then the
\* function applied to single transitions
\* ------------------------------------------------------------------------
MaxCoef == 1

CoefVals == (-1)..MaxCoef

\* MO energies of two orbitals
EnergySamples == { << 0, 1 >>, << 2, -1 >>, << 1, 1 >> }

\* dipole matrices: those the sweep builds for the first frames, and one
\* triple that is not symmetric
DipoleSamples ==
    { calcDipoleCGFS(molecules_au(p, i), compute_center_of_mass(molecules_au(p, i)),
                     trans_mtx_data) : p \in Projects, i \in 0..1 }
    \cup { << << << 1, 2 >>, << 0, 1 >> >>,
              << << 0, 1 >>, << -1, 2 >> >>,
              << << 1, 0 >>, << 1, 1 >> >> >> }

IsSymmetric(m) == \A r \in 1..Len(m) : \A c \in 1..Len(m) : m[r][c] = m[c][r]

AllSymmetric(mtxs) == \A u \in 1..Len(mtxs) : IsSymmetric(mtxs[u])

InitOsc ==
    /\ pc = "pure"
    /\ project_name = "Cd"
    /\ n_geometries = 0
    /\ calculate_oscillator_every = 1
    /\ initial_states = <<>>
    /\ final_states = <<>>
    /\ hdf5_trans_mtx = "trans"
    /\ convolution = "gaussian"
    /\ broadening = RatInt(27)
    /\ energy_range = << RatInt(0), RatInt(54) >>
    /\ scheduled = <<>>
    /\ oscillators = <<>>
    /\ calls = << >>
    /\ energies = <<>>
    /\ cross_section = <<>>
    /\ files = NoFiles
    /\ error = ""
    /\ pure_in \in [es : EnergySamples,
                    coeffs : [1..2 -> [1..2 -> CoefVals]],
                    mtx : DipoleSamples]
    /\ pure_out = {}
    /\ NoCache

\* compute_oscillator_strength for the single transition initialS -> finalS
ApplyOscillator(initialS, finalS) ==
    /\ pc = "pure"
    /\ \A r \in pure_out : ~(r.initialS = initialS /\ r.finalS = finalS)
    /\ LET r == compute_oscillator_strength(
                    pure_in.es, pure_in.coeffs, pure_in.mtx, initialS, << finalS >>)
       IN  /\ r.ok
           /\ pure_out' = pure_out \cup { r.val[1] }
    /\ UNCHANGED << pc, config_vars, scheduled, oscillators, calls, energies,
                    cross_section, files, error, pure_in, cache_vars >>

NextOsc == \E initialS \in 0..1, finalS \in 0..1 : ApplyOscillator(initialS, finalS)

SpecOsc == InitOsc /\ [][NextOsc]_vars

\* ------------------------------------------------------------------------
\* get_multipole_matrix called again and again against one store
\* ------------------------------------------------------------------------
MaxPoint == 1

MaxCalls == 3

\* inp.i of the calls
Points == 0..MaxPoint

\* the multipole argument; compute_matrix_multipole has no branch for the last
Kinds == {"overlap", "dipole", "quadrupole", "octupole"}

CachePaths(project, enumerate_from_) ==
    { PathMultipole(project, i, enumerate_from_, m) : i \in Points, m \in Kinds }

\* the sweep is not running
NoSweep ==
    /\ n_geometries = 0
    /\ calculate_oscillator_every = 1
    /\ initial_states = <<>>
    /\ final_states = <<>>
    /\ hdf5_trans_mtx = "trans"
    /\ convolution = "gaussian"
    /\ broadening = RatInt(27)
    /\ energy_range = << RatInt(0), RatInt(54) >>
    /\ scheduled = <<>>
    /\ oscillators = <<>>
    /\ calls = << >>
    /\ energies = <<>>
    /\ cross_section = <<>>
    /\ files = NoFiles
    /\ error = ""
    /\ pure_in = <<>>
    /\ pure_out = <<>>

\* an existing store without multipole data and an empty scratch directory
EmptyStore ==
    /\ project_name = "Cd"
    /\ enumerate_from \in 0..1
    /\ hdf5 = << >>
    /\ scratch = {}
    /\ kernel_calls = [p \in CachePaths(project_name, enumerate_from) |-> 0]
    /\ dataset_writes = [p \in CachePaths(project_name, enumerate_from) |-> 0]
    /\ history = [p \in CachePaths(project_name, enumerate_from) |-> <<>>]

InitCache ==
    /\ pc = "cache"
    /\ NoSweep
    /\ EmptyStore
    /\ tasks = << >>

RECURSIVE SumOver(_, _)
SumOver(f, S) ==
    IF S = {} THEN 0
    ELSE LET x == CHOOSE y \in S : TRUE IN f[x] + SumOver(f, S \ { x })

\* calls made so far
TotalCalls == SumOver([p \in DOMAIN history |-> Len(history[p])], DOMAIN history)

\* molecule_{uuid4()}.xyz: a name no earlier call has used
ScratchName(path) == << "molecule", path, Len(history[path]) + 1 >>

\* the outcome of one call: whether it returned, whether it called the
\* kernel, whether it created the dataset, and the tensor it returned
Outcome(ok, kernel, wrote, val) ==
    [ok |-> ok, kernel |-> kernel, wrote |-> wrote, val |-> val]

\* one whole call get_multipole_matrix(config, inp, multipole) with inp.i = i
\* and inp.mol the geometry of point i
GetMultipoleMatrix(i, multipole, kernel_ok) ==
    /\ pc = "cache"
    /\ TotalCalls < MaxCalls
    /\ LET path_multipole_hdf5 == PathMultipole(project_name, i, enumerate_from, multipole)
           found == search_multipole_in_hdf5(hdf5, path_multipole_hdf5)
       IN  IF found # None
           THEN /\ history' = [history EXCEPT ![path_multipole_hdf5] =
                                  Append(@, Outcome(TRUE, FALSE, FALSE, found))]
                /\ error' = ""
                /\ UNCHANGED << hdf5, scratch, kernel_calls, dataset_writes >>
           ELSE LET r == compute_matrix_multipole(
                             molecules_au(project_name, i), multipole, scratch,
                             ScratchName(path_multipole_hdf5), kernel_ok)
                    created == path_multipole_hdf5 \notin DOMAIN hdf5
                IN  /\ scratch' = r.scratch
                    /\ kernel_calls' = [kernel_calls EXCEPT ![path_multipole_hdf5] =
                                           IF r.kernel THEN @ + 1 ELSE @]
                    /\ error' = r.err
                    /\ IF r.ok
                       THEN /\ hdf5' = store_arrays_in_hdf5(hdf5, path_multipole_hdf5, r.val)
                            /\ dataset_writes' = [dataset_writes EXCEPT ![path_multipole_hdf5] =
                                                     IF created THEN @ + 1 ELSE @]
                            /\ history' = [history EXCEPT ![path_multipole_hdf5] =
                                              Append(@, Outcome(TRUE, TRUE, created, r.val))]
                       ELSE /\ history' = [history EXCEPT ![path_multipole_hdf5] =
                                              Append(@, Outcome(FALSE, r.kernel, FALSE, None))]
                            /\ UNCHANGED << hdf5, dataset_writes >>
    /\ UNCHANGED << pc, config_vars, scheduled, oscillators, calls, energies,
                    cross_section, files, pure_vars, enumerate_from, tasks >>

NextCache ==
    \E i \in Points, multipole \in Kinds, kernel_ok \in BOOLEAN :
        GetMultipoleMatrix(i, multipole, kernel_ok)

SpecCache == InitCache /\ [][NextCache]_vars

\* ------------------------------------------------------------------------
\* get_multipole_matrix called by concurrent tasks, one per frame, without
\* a lock: the store operations of the calls interleave
\* ------------------------------------------------------------------------
NTasks == 2

\* a call that has not started: inp.i = i, the multipole kind m
NewTask(i, m) ==
    [pc |-> "search", i |-> i, multipole |-> m, matrix |-> None,
     kernel |-> FALSE, wrote |-> FALSE]

\* every task asks for the same kind of multipole
InitConc ==
    /\ pc = "concurrent"
    /\ NoSweep
    /\ EmptyStore
    /\ \E m \in Kinds : tasks \in [1..NTasks -> { NewTask(i, m) : i \in Points }]

TaskPath(t) ==
    PathMultipole(project_name, tasks[t].i, enumerate_from, tasks[t].multipole)

\* molecule_{uuid4()}.xyz of the call of task t
TaskScratchName(t) == << "molecule", "task", t >>

\* search_multipole_in_hdf5 (lines 57-60)
TaskSearch(t) ==
    /\ pc = "concurrent"
    /\ tasks[t].pc = "search"
    /\ LET found == search_multipole_in_hdf5(hdf5, TaskPath(t))
       IN  tasks' = [tasks EXCEPT ![t] =
                        IF found # None
                        THEN [@ EXCEPT !.pc = "return", !.matrix = found]
                        ELSE [@ EXCEPT !.pc = "compute"]]
    /\ UNCHANGED << pc, config_vars, scheduled, oscillators, calls, energies,
                    cross_section, files, error, pure_vars, enumerate_from, hdf5,
                    scratch, kernel_calls, dataset_writes, history >>

\* compute_matrix_multipole (line 61)
TaskCompute(t, kernel_ok) ==
    /\ pc = "concurrent"
    /\ tasks[t].pc = "compute"
    /\ LET r == compute_matrix_multipole(
                    molecules_au(project_name, tasks[t].i), tasks[t].multipole,
                    scratch, TaskScratchName(t), kernel_ok)
       IN  /\ scratch' = r.scratch
           /\ kernel_calls' = [kernel_calls EXCEPT ![TaskPath(t)] =
                                  IF r.kernel THEN @ + 1 ELSE @]
           /\ IF r.ok
              THEN /\ tasks' = [tasks EXCEPT ![t] =
                                  [@ EXCEPT !.pc = "store", !.matrix = r.val,
                                            !.kernel = TRUE]]
                   /\ UNCHANGED << history, error >>
              ELSE /\ tasks' = [tasks EXCEPT ![t] =
                                  [@ EXCEPT !.pc = "raised", !.kernel = r.kernel]]
                   /\ history' = [history EXCEPT ![TaskPath(t)] =
                                     Append(@, Outcome(FALSE, r.kernel, FALSE, None))]
                   /\ error' = r.err
    /\ UNCHANGED << pc, config_vars, scheduled, oscillators, calls, energies,
                    cross_section, files, pure_vars, enumerate_from, hdf5,
                    dataset_writes >>

\* store_arrays_in_hdf5 (line 62)
TaskStore(t) ==
    /\ pc = "concurrent"
    /\ tasks[t].pc = "store"
    /\ LET created == TaskPath(t) \notin DOMAIN hdf5
       IN  /\ hdf5' = store_arrays_in_hdf5(hdf5, TaskPath(t), tasks[t].matrix)
           /\ dataset_writes' = [dataset_writes EXCEPT ![TaskPath(t)] =
                                    IF created THEN @ + 1 ELSE @]
           /\ tasks' = [tasks EXCEPT ![t] = [@ EXCEPT !.pc = "return", !.wrote = created]]
    /\ UNCHANGED << pc, config_vars, scheduled, oscillators, calls, energies,
                    cross_section, files, error, pure_vars, enumerate_from, scratch,
                    kernel_calls, history >>

\* return matrix_multipole (line 64)
TaskReturn(t) ==
    /\ pc = "concurrent"
    /\ tasks[t].pc = "return"
    /\ history' = [history EXCEPT ![TaskPath(t)] =
                      Append(@, Outcome(TRUE, tasks[t].kernel, tasks[t].wrote,
                                        tasks[t].matrix))]
    /\ tasks' = [tasks EXCEPT ![t] = [@ EXCEPT !.pc = "done"]]
    /\ UNCHANGED << pc, config_vars, scheduled, oscillators, calls, energies,
                    cross_section, files, error, pure_vars, enumerate_from, hdf5,
                    scratch, kernel_calls, dataset_writes >>

NextConc ==
    \E t \in 1..NTasks :
        \/ TaskSearch(t)
        \/ \E kernel_ok \in BOOLEAN : TaskCompute(t, kernel_ok)
        \/ TaskStore(t)
        \/ TaskReturn(t)

SpecConc == InitConc /\ [][NextConc]_vars

\* ------------------------------------------------------------------------
\* Properties of the sweep (specification Spec)
\* ------------------------------------------------------------------------
Swept == pc \in {"synthesized", "done"}

\* number of multiples of s in [0, n), for s >= 1
MultiplesBelow(n, s) == (n + s - 1) \div s

\* C1: with a stride s >= 1 the sweep schedules exactly the frames k * s < N
\* in ascending order, computes none of them twice and no other frame, and
\* once the sweep is complete every scheduled frame was computed exactly once
\* and slot k of the gathered result is the result of frame k * s.
C1_SampledFramesOnceInOrder ==
    (pc # "start" /\ calculate_oscillator_every >= 1) =>
        /\ Len(scheduled) = MultiplesBelow(n_geometries, calculate_oscillator_every)
        /\ \A k \in 1..Len(scheduled) :
              scheduled[k] = (k - 1) * calculate_oscillator_every
        /\ \A i \in DOMAIN calls :
              /\ calls[i] <= 1
              /\ calls[i] = 1 => \E k \in 1..Len(scheduled) : scheduled[k] = i
        /\ Swept =>
              /\ \A k \in 1..Len(scheduled) : calls[scheduled[k]] = 1
              /\ Len(oscillators) = Len(scheduled)
              /\ \A k \in 1..Len(oscillators) :
                    /\ oscillators[k].done
                    /\ oscillators[k].frame = (k - 1) * calculate_oscillator_every

\* a complete sweep of three geometries with stride 2: frames 0 and 2 were
\* computed once each, frame 1 never, and the result lists frame 0 then 2
C1_Witness ==
    /\ pc = "done"
    /\ n_geometries = 3
    /\ calculate_oscillator_every = 2
    /\ calls[0] = 1 /\ calls[1] = 0 /\ calls[2] = 1
    /\ oscillators[1].frame = 0
    /\ oscillators[2].frame = 2

NGroups == Min(Len(initial_states), Len(final_states))

\* C2: the result of every computed frame holds one group per positional pair
\* (initial_states[g], final_states[g]), in list order, and group g holds one
\* record per element of final_states[g], in that order, tagged with
\* initialS = initial_states[g] and finalS = that element.
C2_GroupsFollowStateLists ==
    \A k \in 1..Len(oscillators) :
        oscillators[k].done =>
            LET out == oscillators[k].val
            IN  /\ Len(out) = NGroups
                /\ \A g \in 1..Len(out) :
                      /\ Len(out[g]) = Len(final_states[g])
                      /\ \A j \in 1..Len(out[g]) :
                            /\ out[g][j].initialS = initial_states[g]
                            /\ out[g][j].finalS = final_states[g][j]

\* a computed frame with two groups, the second one of three records
C2_Witness ==
    /\ initial_states = << 0, 2 >>
    /\ \E k \in 1..Len(oscillators) :
          /\ oscillators[k].done
          /\ Len(oscillators[k].val) = 2
          /\ Len(oscillators[k].val[2]) = 3
          /\ oscillators[k].val[2][2].finalS = 1

\* C3: every record of the gathered result of frame i has
\* deltaE = es[finalS] - es[initialS] with es the MO energies stored for that
\* same frame i.
C3_DeltaEOfSameFrame ==
    \A k \in 1..Len(oscillators) :
        oscillators[k].done =>
            LET es == mo_energies(project_name, scheduled[k])
                out == oscillators[k].val
            IN  \A g \in 1..Len(out) : \A j \in 1..Len(out[g]) :
                    out[g][j].deltaE =
                        PyIndex(es, out[g][j].finalS) - PyIndex(es, out[g][j].initialS)

\* two computed frames whose energies give the same transition different gaps
C3_Witness ==
    \E k1 \in 1..Len(oscillators), k2 \in 1..Len(oscillators) :
        /\ oscillators[k1].done /\ oscillators[k2].done
        /\ oscillators[k1].frame > 0
        /\ oscillators[k1].val # <<>> /\ oscillators[k1].val[1] # <<>>
        /\ oscillators[k1].val[1][1].deltaE # oscillators[k2].val[1][1].deltaE

\* ------------------------------------------------------------------------
\* Properties of the oscillator strength (specification SpecOsc)
\* ------------------------------------------------------------------------
\* orbital s (0-based) of the 2 x 2 coefficient matrix of the pure inputs
PureCss(s) == << pure_in.coeffs[1][s + 1], pure_in.coeffs[2][s + 1] >>

\* c_i . D . c_j written out for two basis functions
Bilinear(ci, D, cj) ==
    ci[1] * D[1][1] * cj[1] + ci[1] * D[1][2] * cj[2]
        + ci[2] * D[2][1] * cj[1] + ci[2] * D[2][2] * cj[2]

\* C4: the three components are c_i . D_u . c_j for u = x, y, z in that
\* order, and 3 * fij = 2 * deltaE * (dx^2 + dy^2 + dz^2).
C4_OscillatorStrengthFormula ==
    pc = "pure" =>
        \A r \in pure_out :
            LET d == [u \in 1..3 |->
                        Bilinear(PureCss(r.initialS), pure_in.mtx[u], PureCss(r.finalS))]
            IN  /\ r.components = d
                /\ 3 * r.fij.n =
                      2 * r.deltaE * (d[1] * d[1] + d[2] * d[2] + d[3] * d[3]) * r.fij.d

\* a transition with three different non-zero components and a fractional fij
C4_Witness ==
    /\ pc = "pure"
    /\ \E r \in pure_out :
          /\ r.fij.d = 3
          /\ r.components[1] # 0 /\ r.components[2] # 0 /\ r.components[3] # 0
          /\ r.components[1] # r.components[2]
          /\ r.components[2] # r.components[3]
          /\ r.components[1] # r.components[3]

Reverse(a, b) == a.initialS = b.finalS /\ a.finalS = b.initialS

\* C5: with symmetric dipole matrices, the two directions of a transition
\* have opposite energy gaps and the same three components.
C5_SwapNegatesGapKeepsComponents ==
    (pc = "pure" /\ AllSymmetric(pure_in.mtx)) =>
        \A a \in pure_out, b \in pure_out :
            Reverse(a, b) =>
                /\ a.deltaE = -b.deltaE
                /\ a.components = b.components

\* both directions of a transition between two different states, with a
\* non-zero gap and a non-zero component
C5_Witness ==
    /\ pc = "pure"
    /\ AllSymmetric(pure_in.mtx)
    /\ \E a \in pure_out, b \in pure_out :
          /\ Reverse(a, b)
          /\ a.initialS # a.finalS
          /\ a.deltaE > 0
          /\ a.components[1] # 0
          /\ PureCss(0) # PureCss(1)

\* C6 as claimed: f(i->j) * deltaE(j->i) = -f(j->i) * deltaE(i->j) whenever
\* both directions are computed.
C6_Original ==
    (pc = "pure" /\ AllSymmetric(pure_in.mtx)) =>
        \A a \in pure_out, b \in pure_out :
            Reverse(a, b) =>
                RatMul(a.fij, RatInt(b.deltaE)) = RatNeg(RatMul(b.fij, RatInt(a.deltaE)))

\* C6 amended: with symmetric dipole matrices,
\* f(i->j) * deltaE(j->i) = f(j->i) * deltaE(i->j) whenever both directions
\* are computed (the two products are equal, not opposite).
C6_SwapProductsEqual ==
    (pc = "pure" /\ AllSymmetric(pure_in.mtx)) =>
        \A a \in pure_out, b \in pure_out :
            Reverse(a, b) =>
                RatMul(a.fij, RatInt(b.deltaE)) = RatMul(b.fij, RatInt(a.deltaE))

\* both directions computed with non-zero, opposite oscillator strengths
C6_Witness ==
    /\ pc = "pure"
    /\ AllSymmetric(pure_in.mtx)
    /\ \E a \in pure_out, b \in pure_out :
          /\ Reverse(a, b)
          /\ a.fij.n > 0
          /\ b.fij.n < 0

\* ------------------------------------------------------------------------
\* Properties of the synthesis (specification Spec)
\* ------------------------------------------------------------------------
NSampled == Len(oscillators)

\* fij * kernel(x, deltaE, width) of the record of task k, group g, final j
KernelTerm(k, g, j, x) ==
    LET rec == oscillators[k].val[g][j]
    IN  RatMul(rec.fij, RatInt(fun_convolution(convolution, x, rec.deltaE, broadening)))

\* sum over the sampled frames of the terms of pair (g, j)
FrameSum(g, j, x) == RatSum([k \in 1..NSampled |-> KernelTerm(k, g, j, x)])

\* C7 as claimed: sum over groups of the mean over the final states of the
\* group of the sum over frames (stated for the valid strides).
C7_Original ==
    (pc = "synthesized" /\ calculate_oscillator_every >= 1) =>
        \A e \in 1..Len(energies) :
            cross_section[e] =
                IF NSampled = 0 THEN RatInt(0)
                ELSE RatSum([g \in 1..NGroups |->
                        IF final_states[g] = <<>> THEN RatInt(0)
                        ELSE RatDiv(
                                RatSum([j \in 1..Len(final_states[g]) |->
                                            FrameSum(g, j, energies[e])]),
                                RatInt(Len(final_states[g])))])

\* C7 amended: at every grid energy the intensity is (up to the constant
\* scale) the sum over initial-state groups of the sum over the final states
\* of the group of the mean over the sampled frames (divided by the number of
\* sampled frames) of fij * kernel; the final-state dimension is summed, the
\* frame dimension is averaged.
C7_SumGroupsSumFinalsMeanFrames ==
    pc = "synthesized" =>
        \A e \in 1..Len(energies) :
            cross_section[e] =
                IF NSampled = 0 THEN RatInt(0)
                ELSE RatSum([g \in 1..NGroups |->
                        RatSum([j \in 1..Len(final_states[g]) |->
                                   RatDiv(FrameSum(g, j, energies[e]),
                                          RatInt(NSampled))])])

\* three sampled frames, one group of two final states, a non-zero intensity
C7_Witness ==
    /\ pc = "synthesized"
    /\ NSampled = 3
    /\ final_states = << << 1, 2 >> >>
    /\ \E e \in 1..Len(energies) : cross_section[e].n # 0

\* all terms of all records at grid energy x
RECURSIVE AllTerms(_, _)
AllTerms(k, x) ==
    IF k = 0 THEN RatInt(0)
    ELSE RatAdd(AllTerms(k - 1, x),
                RatSum([g \in 1..NGroups |->
                    RatSum([j \in 1..Len(final_states[g]) |-> KernelTerm(k, g, j, x)])]))

\* C8: the mean is taken over the sampled frames of one (initial, final)
\* pair: the intensity times the number of sampled frames is the plain sum of
\* fij * kernel over all records, so no pair is divided by anything but the
\* frame count and no two pairs share a mean.
C8_MeanOverFramesPerPair ==
    pc = "synthesized" =>
        \A e \in 1..Len(energies) :
            RatMul(cross_section[e], RatInt(NSampled)) = AllTerms(NSampled, energies[e])

\* two sampled frames, two groups of different sizes, a non-zero intensity
C8_Witness ==
    /\ pc = "synthesized"
    /\ NSampled = 2
    /\ final_states = << << 1 >>, << 0, 1, 2 >> >>
    /\ convolution = "lorentzian"
    /\ \E e \in 1..Len(energies) : cross_section[e].n # 0

\* ------------------------------------------------------------------------
\* Configuration errors (specification Spec)
\* ------------------------------------------------------------------------
\* C9 as claimed: with initial_states and final_states of different lengths
\* the sweep fails before the oscillators of any frame are computed (stated
\* for the valid strides).
C9_MismatchRejectedBeforeFrames ==
    (calculate_oscillator_every >= 1 /\ Len(initial_states) # Len(final_states)) =>
        \A k \in 1..Len(oscillators) : ~oscillators[k].done

\* C10 as claimed: with a kernel name other than gaussian or lorentzian the
\* oscillators of no frame are ever computed (stated for the valid strides and
\* state lists of equal, non-zero length with non-negative initial states).
C10_UnknownKernelRejectedBeforeFrames ==
    (/\ convolution \notin {"gaussian", "lorentzian"}
     /\ calculate_oscillator_every >= 1
     /\ Len(initial_states) = Len(final_states)
     /\ initial_states # <<>>
     /\ \A g \in 1..Len(initial_states) : initial_states[g] >= 0) =>
        \A k \in 1..Len(oscillators) : ~oscillators[k].done

\* ------------------------------------------------------------------------
\* The energy grid (specification Spec)
\* ------------------------------------------------------------------------
RatLeq(a, b) == a.n * b.d <= b.n * a.d

RatLess(a, b) == a.n * b.d < b.n * a.d

\* the grid exists: create_promised_cross_section has returned
GridBuilt == pc \in {"running", "synthesized"}

\* the bounds of energy_range in Hartree, as the grid computation holds them
GridStart == Float64(RatDiv(energy_range[1], RatInt(h2ev)))

GridStop == Float64(RatDiv(energy_range[2], RatInt(h2ev)))

\* C11 as claimed: with E_max <= E_min the grid construction fails with an
\* error, so that the sweep never holds a grid or a curve for such a range
\* (stated for the valid strides).
C11_EmptyRangeRejected ==
    (/\ RatLeq(energy_range[2], energy_range[1])
     /\ calculate_oscillator_every >= 1
     /\ pc # "start") =>
        /\ pc = "failed"
        /\ error = "ValueError"
        /\ \A k \in 1..Len(oscillators) : ~oscillators[k].done

\* C12 as claimed: for E_max > E_min and a positive width the grid has exactly
\* floor((E_max - E_min) / width) points, the ratio taken in eV.
C12_GridCountIsFloorOfRatio ==
    (GridBuilt /\ RatLess(energy_range[1], energy_range[2])) =>
        Len(energies) = Floor(RatDiv(RatSub(energy_range[2], energy_range[1]), broadening))

\* consecutive points of the grid are equally far apart
UniformlySpaced(grid) ==
    \A k \in 1..(Len(grid) - 2) :
        RatSub(grid[k + 1], grid[k]) = RatSub(grid[k + 2], grid[k + 1])

\* C13 as claimed: every grid of one or more points is uniformly spaced,
\* starts at E_min and ends at E_max.
C13_Original ==
    (GridBuilt /\ Len(energies) >= 1) =>
        /\ energies[1] = GridStart
        /\ energies[Len(energies)] = GridStop
        /\ UniformlySpaced(energies)

\* C13 amended: every grid of two or more points is uniformly spaced with its
\* first point equal to E_min and its last point equal to E_max (both in
\* Hartree); a grid of one point holds E_min only.
C13_GridSpansRangeFromTwoPoints ==
    GridBuilt =>
        /\ Len(energies) >= 2 =>
              /\ energies[1] = GridStart
              /\ energies[Len(energies)] = GridStop
              /\ UniformlySpaced(energies)
              /\ RatLess(energies[1], energies[2])
        /\ Len(energies) = 1 => energies = << GridStart >>

\* a grid of three points over (0, 81) eV: 0, 3/2 and 3 Hartree
C13_Witness ==
    /\ GridBuilt
    /\ energy_range = << RatInt(0), RatInt(81) >>
    /\ energies = << RatInt(0), Rat(3, 2), RatInt(3) >>

\* C14 as claimed: the width the kernel receives for every transition is the
\* broadening converted to Hartree, broadening / h2ev, so every intensity is
\* the aggregation of fij * kernel(x, deltaE, broadening / h2ev) (stated for
\* the valid strides and state lists of equal length).
C14_KernelWidthInAtomicUnits ==
    (/\ pc = "synthesized"
     /\ calculate_oscillator_every >= 1
     /\ Len(initial_states) = Len(final_states)) =>
        \A e \in 1..Len(energies) :
            cross_section[e] =
                compute_cross_section(GatheredValues, convolution, energies[e],
                                      Float64(RatDiv(broadening, RatInt(h2ev))))

\* ------------------------------------------------------------------------
\* Output files (specification Spec)
\* ------------------------------------------------------------------------
\* C15: a run that failed, in a frame or in the synthesis, has written none
\* of the three files; in every run a file exists only once every scheduled
\* frame and the synthesis have succeeded, and then the two spectra exist
\* (oscillators.txt is opened once per block of records).
C15_FilesOnlyAfterSuccess ==
    /\ error # "" => pc = "failed"
    /\ pc = "failed" => (error # "" /\ files = NoFiles)
    /\ files # NoFiles =>
          /\ pc = "done"
          /\ AllGathered
          /\ Len(cross_section) = Len(energies)
          /\ files.cross_section_cm.exists
          /\ files.molar_extinction_coefficients.exists

\* the MO data of a later frame is missing after another frame was computed:
\* the run has failed and no file was written
C15_Witness ==
    /\ pc = "failed"
    /\ error = "KeyError"
    /\ convolution = "gaussian"
    /\ \E k \in 1..Len(oscillators) : oscillators[k].done /\ oscillators[k].val # <<>>
    /\ files = NoFiles

\* the blocks of records handed to write_information: one per sampled
\* frame and initial-state group
WrittenBlocks == Concat(GatheredValues)

\* C16 as claimed: after write_information oscillators.txt holds, for every
\* block, a header line followed by one row per record of the block, so that
\* no block written earlier is lost (stated for the valid strides and state
\* lists of equal length).
C16_OneRowPerRecord ==
    (/\ pc = "done"
     /\ calculate_oscillator_every >= 1
     /\ Len(initial_states) = Len(final_states)) =>
        files.oscillators.rows =
            Concat([b \in 1..Len(WrittenBlocks) |->
                       << "header" >> \o
                       [k \in 1..Len(WrittenBlocks[b]) |-> write_oscillator(WrittenBlocks[b][k])]])

\* ------------------------------------------------------------------------
\* Properties of the integral cache (specification SpecCache)
\* ------------------------------------------------------------------------
\* an array as the store holds it
AsStored(tensor) ==
    [shape |-> tensor.shape,
     data |-> [k \in 1..Len(tensor.data) |-> Float32(tensor.data[k])]]

\* C17 as claimed: for each key only the first call invokes the kernel or
\* writes the store; no later call with the key does either.
C17_Original ==
    pc = "cache" =>
        \A p \in DOMAIN history : \A l \in 2..Len(history[p]) :
            ~history[p][l].kernel /\ ~history[p][l].wrote

\* C17 amended: for each key the kernel is invoked only by the calls up to
\* and including the first call with that key that returns (a call whose
\* kernel raises stores nothing, and the next call invokes the kernel again);
\* the store is written once, by that first returning call; every later call
\* with the key returns, invokes the kernel zero times and leaves the store
\* as that call wrote it.
C17_KernelAndWriteUntilFirstReturn ==
    pc = "cache" =>
        \A p \in DOMAIN history :
            LET h == history[p]
            IN  /\ dataset_writes[p] <= 1
                /\ dataset_writes[p] = 1 <=> p \in DOMAIN hdf5
                /\ p \in DOMAIN hdf5 <=> \E k \in 1..Len(h) : h[k].ok
                /\ kernel_calls[p] = Cardinality({k \in 1..Len(h) : h[k].kernel})
                /\ \A k \in 1..Len(h) :
                      /\ h[k].wrote =>
                            /\ h[k].ok /\ h[k].kernel
                            /\ \A j \in 1..(k - 1) : ~h[j].ok
                            /\ hdf5[p] = AsStored(h[k].val)
                      /\ h[k].ok =>
                            \A l \in (k + 1)..Len(h) :
                                /\ h[l].ok
                                /\ ~h[l].kernel
                                /\ ~h[l].wrote
                                /\ h[l].val = hdf5[p]

\* three calls with one key: the first computes and stores, the next two
\* read; the kernel ran once
C17_Witness ==
    /\ pc = "cache"
    /\ \E p \in DOMAIN history :
          /\ Len(history[p]) = 3
          /\ history[p][1].ok /\ history[p][1].kernel /\ history[p][1].wrote
          /\ history[p][2].ok /\ ~history[p][2].kernel
          /\ history[p][3].ok /\ ~history[p][3].kernel
          /\ kernel_calls[p] = 1
          /\ dataset_writes[p] = 1

\* C18 as claimed: two successive calls with the same key that return, return
\* the same tensor, element for element.
C18_SuccessiveCallsReturnSameTensor ==
    pc = "cache" =>
        \A p \in DOMAIN history : \A k \in 1..(Len(history[p]) - 1) :
            (history[p][k].ok /\ history[p][k + 1].ok) =>
                history[p][k].val = history[p][k + 1].val

\* C19 as claimed: after every call, returned or failed, no scratch file of
\* the call remains.
C19_ScratchFileRemoved ==
    pc = "cache" => scratch = {}

\* ------------------------------------------------------------------------
\* Properties of concurrent calls (specification SpecConc)
\* ------------------------------------------------------------------------
DistinctGeometries ==
    \A t \in DOMAIN tasks, u \in DOMAIN tasks : t # u => tasks[t].i # tasks[u].i

\* the tensor of the geometry of point i
OwnTensor(i, multipole) ==
    LET super_matrix == compute_integrals_multipole(molecules_au(project_name, i), multipole)
        dim == BasisDim(molecules_au(project_name, i))
    IN  IF multipole = "overlap" THEN super_matrix
        ELSE reshape(super_matrix, << Planes(multipole), dim, dim >>)

Returning(t) == tasks[t].pc \in {"return", "done"}

\* C20: when the tasks have pairwise distinct geometry indices, under every
\* interleaving each call that returns has computed and returns the tensor of
\* its own geometry (it found nobody else's entry), has created its own
\* dataset, which holds its own tensor; no dataset is created twice and the
\* store holds nothing but the entries of the calls that stored.
C20_DistinctFramesDoNotInterfere ==
    (pc = "concurrent" /\ DistinctGeometries) =>
        /\ \A t \in DOMAIN tasks :
              Returning(t) =>
                  /\ tasks[t].kernel
                  /\ tasks[t].wrote
                  /\ tasks[t].matrix = OwnTensor(tasks[t].i, tasks[t].multipole)
                  /\ dataset_writes[TaskPath(t)] = 1
                  /\ TaskPath(t) \in DOMAIN hdf5
                  /\ hdf5[TaskPath(t)] = AsStored(OwnTensor(tasks[t].i, tasks[t].multipole))
        /\ \A p \in DOMAIN dataset_writes : dataset_writes[p] <= 1
        /\ \A p \in DOMAIN hdf5 :
              \E t \in DOMAIN tasks : TaskPath(t) = p /\ Returning(t)
        /\ \A t \in DOMAIN tasks :
              tasks[t].pc = "done" =>
                  history[TaskPath(t)] =
                      << Outcome(TRUE, TRUE, TRUE, OwnTensor(tasks[t].i, tasks[t].multipole)) >>

\* two frames ask for the dipole tensor: the second call has returned while
\* the first has computed its tensor and not yet stored it
C20_Witness ==
    /\ pc = "concurrent"
    /\ DistinctGeometries
    /\ tasks[1].multipole = "dipole"
    /\ tasks[1].pc = "store"
    /\ tasks[2].pc = "done"
    /\ Cardinality(DOMAIN hdf5) = 1

\* two calls with one key that both missed the store and both ran the kernel
Raced(t, u) ==
    /\ t # u
    /\ TaskPath(t) = TaskPath(u)
    /\ tasks[t].pc = "done" /\ tasks[u].pc = "done"
    /\ tasks[t].kernel /\ tasks[u].kernel

\* what a call made after the race returns: the entry of the store
LaterCall(p) == search_multipole_in_hdf5(hdf5, p)

\* C21 as claimed: when two calls with the same key interleave so that both
\* miss before either stores, the store ends holding the tensor computed from
\* the inputs of the key, and both callers have returned the tensor that any
\* later call with the key returns.
C21_SameKeyRaceHarmless ==
    pc = "concurrent" =>
        \A t \in DOMAIN tasks, u \in DOMAIN tasks :
            Raced(t, u) =>
                /\ TaskPath(t) \in DOMAIN hdf5
                /\ hdf5[TaskPath(t)] = AsStored(OwnTensor(tasks[t].i, tasks[t].multipole))
                /\ tasks[t].matrix = tasks[u].matrix
                /\ tasks[t].matrix = LaterCall(TaskPath(t))

\* ------------------------------------------------------------------------
\* The join between the sweep and the synthesis (specification Spec)
\* ------------------------------------------------------------------------
\* a step of the run that leaves the sweep without executing a frame: the
\* synthesis has been evaluated (it returned or raised)
SynthesisStep == pc = "running" /\ pc' # "running" /\ calls' = calls

\* C22: compute_cross_section_grid is evaluated only when the oscillator
\* computation of every sampled frame has completed (every slot of the gather
\* is resolved, each frame computed once), and what it consumes is that
\* complete collection: the curve it returns is the one computed from all
\* the gathered slots, which the step leaves as they are.
C22_SynthesisAfterAllFrames ==
    [][SynthesisStep =>
          /\ Len(oscillators) = Len(scheduled)
          /\ \A k \in 1..Len(scheduled) :
                /\ oscillators[k].done
                /\ oscillators[k].frame = scheduled[k]
                /\ calls[scheduled[k]] = 1
          /\ oscillators' = oscillators
          /\ pc' = "synthesized" =>
                /\ Len(cross_section') = Len(energies)
                /\ \A e \in 1..Len(energies) :
                      cross_section'[e] =
                          compute_cross_section(
                              [k \in 1..Len(scheduled) |-> oscillators[k].val],
                              convolution, energies[e], broadening)]_vars

\* the synthesis has run over three gathered frames, each computed once, and
\* a grid of three energies
C22_Witness ==
    /\ pc = "synthesized"
    /\ calculate_oscillator_every = 1
    /\ Len(scheduled) = 3
    /\ \A k \in 1..3 : oscillators[k].done /\ calls[scheduled[k]] = 1
    /\ Len(cross_section) = 3
    /\ \E e \in 1..3 : cross_section[e].n # 0

\* ------------------------------------------------------------------------
\* State indices (specification Spec)
\* ------------------------------------------------------------------------
\* number of orbitals stored for frame i
OrbitalCount(i) == Len(mo_energies(project_name, i))

\* C23 as claimed: compute_oscillator_strength fails for every initial or
\* final state index outside [0, orbitalCount), negative indices included, so
\* no gathered result holds a transition record with such an index (stated
\* for the valid strides and state lists of equal length).
C23_OutOfRangeIndexRejected ==
    (calculate_oscillator_every >= 1 /\ Len(initial_states) = Len(final_states)) =>
        \A k \in 1..Len(oscillators) :
            oscillators[k].done =>
                \A g \in 1..Len(oscillators[k].val) :
                    \A j \in 1..Len(oscillators[k].val[g]) :
                        LET rec == oscillators[k].val[g][j]
                        IN  /\ 0 <= rec.initialS
                            /\ rec.initialS < OrbitalCount(scheduled[k])
                            /\ 0 <= rec.finalS
                            /\ rec.finalS < OrbitalCount(scheduled[k])

\* ------------------------------------------------------------------------
\* Every record reaches the sum (specification Spec)
\* ------------------------------------------------------------------------
\* all the records of the gathered result, frame after frame
AllRecords == Concat(Concat(GatheredValues))

\* records one frame yields: one per final state of every paired group
RecordsPerFrame == IntSum([g \in 1..NGroups |-> Len(final_states[g])])

\* the term of one record at grid energy x
RecordTerm(rec, x) ==
    RatMul(rec.fij, RatInt(fun_convolution(convolution, x, rec.deltaE, broadening)))

SumSquares(c) == IntSum([u \in 1..Len(c) |-> c[u] * c[u]])

\* C24: every record the sweep produced is in the gathered collection with
\* its value as computed (fij = 2/3 * deltaE * sum of squares, whatever its
\* sign), and at every grid energy the intensity times the number of sampled
\* frames is the sum of one term fij * kernel(x, deltaE) per record: records
\* with deltaE <= 0, fij = 0 or deltaE outside the grid are neither dropped
\* nor clamped.
C24_EveryRecordContributes ==
    pc = "synthesized" =>
        /\ Len(AllRecords) = NSampled * RecordsPerFrame
        /\ \A r \in 1..Len(AllRecords) :
              3 * AllRecords[r].fij.n =
                  2 * AllRecords[r].deltaE * SumSquares(AllRecords[r].components)
                    * AllRecords[r].fij.d
        /\ \A e \in 1..Len(energies) :
              RatMul(cross_section[e], RatInt(NSampled)) =
                  RatSum([r \in 1..Len(AllRecords) |-> RecordTerm(AllRecords[r], energies[e])])

\* a synthesized sweep whose records include a negative gap with a non-zero
\* term, a zero oscillator strength, and a gap above the last grid energy
C24_Witness ==
    /\ pc = "synthesized"
    /\ \E r \in 1..Len(AllRecords) :
          /\ AllRecords[r].deltaE < 0
          /\ \E e \in 1..Len(energies) : RecordTerm(AllRecords[r], energies[e]).n < 0
    /\ \E r \in 1..Len(AllRecords) : AllRecords[r].fij.n = 0
    /\ \E r \in 1..Len(AllRecords) :
          RatLess(energies[Len(energies)], RatInt(AllRecords[r].deltaE))

\* ------------------------------------------------------------------------
\* The end-to-end scenario (specification Spec)
\* ------------------------------------------------------------------------
\* 3 frames, initial_states=[0], final_states=[[1,2]], stride 1, the range
\* (0, 1) eV, a width of 0.5 eV and the Gaussian kernel
Scenario ==
    /\ n_geometries = 3
    /\ initial_states = << 0 >>
    /\ final_states = << << 1, 2 >> >>
    /\ calculate_oscillator_every = 1
    /\ energy_range = << RatInt(0), RatInt(1) >>
    /\ broadening = Rat(1, 2)
    /\ convolution = "gaussian"

TotalIntensity == RatSum(cross_section)

\* no sampled frame has a final state below its initial state
NonNegativeGaps == \A r \in 1..Len(AllRecords) : AllRecords[r].deltaE >= 0

MassMoment(i, u) ==
    LET atoms == molecules_au(project_name, i)
    IN  IntSum([a \in 1..Len(atoms) |-> getmass(atoms[a].symbol) * atoms[a].xyz[u]])

\* sum of the mass numbers of the atoms of frame i
TotalMass(i) ==
    LET atoms == molecules_au(project_name, i)
    IN  IntSum([a \in 1..Len(atoms) |-> getmass(atoms[a].symbol)])

\* C26: for every sampled frame i that was computed, the origin handed to the
\* dipole integrals of that frame is, on each axis, sum(mass_k * xyz_k) /
\* sum(mass_k) over the atoms of frame i itself, with the integer mass
\* numbers; it is never the origin of another frame.
C26_OriginIsOwnCenterOfMass ==
    \A k \in 1..Len(oscillators) :
        oscillators[k].done =>
            /\ Len(oscillators[k].rc) = 3
            /\ \A u \in 1..3 :
                  oscillators[k].rc[u].n * TotalMass(scheduled[k]) =
                      oscillators[k].rc[u].d * MassMoment(scheduled[k], u)

\* two computed frames whose origins differ, one with a fractional coordinate
C26_Witness ==
    \E k1 \in 1..Len(oscillators), k2 \in 1..Len(oscillators) :
        /\ oscillators[k1].done /\ oscillators[k2].done
        /\ oscillators[k1].rc # oscillators[k2].rc
        /\ \E u \in 1..3 : oscillators[k1].rc[u].d > 1

\* ------------------------------------------------------------------------
\* The stride (specification Spec)
\* ------------------------------------------------------------------------
\* C27 as claimed: with a stride smaller than 1 (0 or negative) and at least
\* one geometry the sweep is rejected: it fails, no frame is selected and no
\* frame's oscillator computation is ever started.
C27_InvalidStrideRejected ==
    (calculate_oscillator_every < 1 /\ n_geometries > 0 /\ pc # "start") =>
        /\ pc = "failed"
        /\ scheduled = <<>>
        /\ \A i \in DOMAIN calls : calls[i] = 0

\* ------------------------------------------------------------------------
\* Independence of the schedule (specification Spec)
\* ------------------------------------------------------------------------
\* the records of frame i as a function of the configuration alone
FrameRecords(i) ==
    calcOscillatorStrenghts(i, project_name, molecules_au(project_name, i),
                            hdf5_trans_mtx, initial_states, final_states).val

\* C28: whatever the order in which the frame tasks have executed so far,
\* every resolved position k of the gather holds the records of frame
\* scheduled[k] (frame (k - 1) * stride for a stride >= 1, positions counted
\* from 1), and the synthesized spectrum is the one computed from the frames'
\* records in the order of the gather: neither depends on the schedule.
C28_ResultIndependentOfSchedule ==
    /\ \A k \in 1..Len(oscillators) :
          oscillators[k].done =>
              /\ oscillators[k].frame = scheduled[k]
              /\ calculate_oscillator_every >= 1 =>
                    scheduled[k] = (k - 1) * calculate_oscillator_every
              /\ oscillators[k].val = FrameRecords(scheduled[k])
    /\ pc = "synthesized" =>
          cross_section =
              [e \in 1..Len(energies) |->
                  compute_cross_section(
                      [k \in 1..Len(scheduled) |-> FrameRecords(scheduled[k])],
                      convolution, energies[e], broadening)]

\* three frames of which the last two have been computed before the first:
\* position 3 holds the records of frame 2, other than those of frame 1
C28_Witness ==
    /\ pc = "running"
    /\ calculate_oscillator_every = 1
    /\ Len(oscillators) = 3
    /\ ~oscillators[1].done /\ calls[0] = 0
    /\ oscillators[2].done /\ oscillators[3].done
    /\ oscillators[3].frame = 2
    /\ oscillators[3].val # oscillators[2].val
    /\ oscillators[3].val # <<>>

\* ------------------------------------------------------------------------
\* No transformation matrix (specification Spec)
\* ------------------------------------------------------------------------
\* the task of position k has executed
Executed(k) == oscillators[k].frame >= 0

\* C29: with hdf5_trans_mtx = None no task ever returns records: every task
\* that executes on a frame whose MO data is stored raises UnboundLocalError
\* after the MO data was read and the origin computed, with no dipole
\* integral and no record computed (a frame without MO data fails earlier,
\* with the KeyError of the read), and the run fails.
C29_NoRecordsWithoutTransformation ==
    hdf5_trans_mtx = "None" =>
        /\ pc \in {"synthesized", "done"} => scheduled = <<>>
        /\ \A k \in 1..Len(oscillators) :
              /\ ~oscillators[k].done
              /\ oscillators[k].val = <<>>
              /\ Executed(k) =>
                    /\ pc = "failed"
                    /\ IF mo_stored(project_name, scheduled[k])
                       THEN /\ error = "UnboundLocalError"
                            /\ oscillators[k].steps = << "mo", "rc" >>
                       ELSE /\ error = "KeyError"
                            /\ oscillators[k].steps = << >>

\* a task of a sweep without transformation path has raised after the MO
\* read: the run has failed and holds no record
C29_Witness ==
    /\ hdf5_trans_mtx = "None"
    /\ pc = "failed"
    /\ error = "UnboundLocalError"
    /\ Len(final_states) > 0 /\ Len(initial_states) > 0
    /\ \E k \in 1..Len(oscillators) :
          /\ Executed(k)
          /\ oscillators[k].steps = << "mo", "rc" >>
          /\ Len(oscillators[k].rc) = 3
          /\ oscillators[k].val = <<>>

\* ------------------------------------------------------------------------
\* The divisor of the mean (specification Spec)
\* ------------------------------------------------------------------------
\* the sweep has produced its whole collection
CollectionComplete ==
    \/ pc = "synthesized"
    \/ pc = "running" /\ \A k \in 1..Len(oscillators) : oscillators[k].done

\* sum(osc.fij * kernel for osc in ws) / len(ws)
MeanOfTuple(ws, x) ==
    RatDiv(RatSum([o \in 1..Len(ws) |-> RecordTerm(ws[o], x)]), RatInt(Len(ws)))

\* C30: for every collection the sweep produces, every tuple ws whose length
\* divides a sum holds one record per sampled frame, so the divisor len(ws)
\* is at least 1 whenever it is evaluated; no tuple exists when there is no
\* sampled frame, no group or only empty final-state lists, and then the
\* intensity is 0 at every grid energy; otherwise the intensity is the sum of
\* the means of the tuples.
C30_DivisorAtLeastOne ==
    CollectionComplete =>
        LET wss == FrameTuples(GatheredValues)
        IN  /\ \A w \in 1..Len(wss) : Len(wss[w]) >= 1 /\ Len(wss[w]) = NSampled
            /\ (NSampled = 0 \/ RecordsPerFrame = 0) => wss = <<>>
            /\ pc = "synthesized" =>
                  /\ Len(cross_section) = Len(energies)
                  /\ \A e \in 1..Len(energies) :
                        /\ wss = <<>> => cross_section[e] = RatInt(0)
                        /\ cross_section[e] =
                              RatSum([w \in 1..Len(wss) |-> MeanOfTuple(wss[w], energies[e])])

\* two sampled frames and one group with an empty final-state list: no tuple,
\* no division, and an intensity of 0 at each of the three grid energies
C30_Witness ==
    /\ pc = "synthesized"
    /\ NSampled = 2
    /\ initial_states = << 1 >>
    /\ final_states = << << >> >>
    /\ GatheredValues = << << << >> >>, << << >> >> >>
    /\ cross_section = << RatInt(0), RatInt(0), RatInt(0) >>

=============================================================================
